---- MODULE Spec2Model ----
(***************************************************************************)
(* The flow-aggregated router simulation (PG/scripts/                      *)
(* flow_aggregated_router_sim.py) as a state machine: RouterSystem's       *)
(* construction, the loading of the replay dataset, and the replay loop    *)
(* that draws a flow, scores it, checks it against its label, prints its   *)
(* record and sleeps.  The decision of router_demo.py's inspect_packet is  *)
(* an operator.                                                            *)
(*                                                                         *)
(* Probabilities are in hundredths (50 is 0.5).  The clock counts half     *)
(* seconds, so int(time.time()) is clock \div TicksPerSecond and the       *)
(* inter-arrival sleep of 0.5 .. 2.0 s is 1 .. 4 ticks.                    *)
(***************************************************************************)
EXTENDS Integers, Sequences, FiniteSets, TLC

\* ------------------------------------------------------------------ bounds
MaxRows == 1        \* rows of the replay dataset
MaxFlows == 2       \* iterations of the replay loop that are explored
MaxClock == 4       \* last clock tick at which a sleep may still start

\* ------------------------------------------------------- program constants
Threshold == 50         \* the 0.5 of "prob > 0.5" and of "prob >= 0.5"
TicksPerSecond == 2     \* clock ticks in one second
SleepLow == 1           \* np.random.uniform(0.5, 2.0): 0.5 s in ticks
SleepHigh == 4          \* np.random.uniform(0.5, 2.0): 2.0 s in ticks
ExitFailure == 1        \* sys.exit(1), and the status of an uncaught exception
ExitSuccess == 0        \* the status when simulation_loop() returns

BenignSentinel == "BENIGN"   \* the literal of line 75
NaN == "<NaN>"               \* an empty Label cell, as pandas reads it

\* ------------------------------------------------------------ environment
\* What the classifier may answer, in hundredths.
ProbValues == {10, 49, 50, 51, 61, 73}
\* What process.memory_info() and the timer may answer.
MemSamples == {40}
LatencySamples == {1}

\* A row of router_traffic.csv: the four flag counts and the duration of
\* COLUMNS that the program reads itself, the Label cell, and whether every
\* feature is a finite number (the scaler rejects a row that has an inf).
\* The four flag counts of COLUMNS that the program never reads (RST, URG,
\* CWE, ECE) are zero unless a row says otherwise.
Row(syn, fin, ack, psh, dur, label, finite) ==
    [syn |-> syn, fin |-> fin, ack |-> ack, psh |-> psh, dur |-> dur,
     label |-> label, finite |-> finite,
     rst |-> 0, urg |-> 0, cwe |-> 0, ece |-> 0]

RowCatalogue ==
    { Row(1, 0, 1, 0, 120, "BENIGN", TRUE),
      Row(1, 1, 1, 1, 7, "DoS Hulk", TRUE),
      Row(0, 0, 0, 0, 0, "benign", TRUE),
      Row(0, 1, 0, 2, 3, NaN, TRUE),
      Row(1, 0, 0, 0, 5, "BENIGN", FALSE),
      [Row(0, 0, 1, 0, 9, "DoS Hulk", TRUE) EXCEPT !.rst = 1] }

SeqsUpTo(S, n) == UNION { [1..k -> S] : k \in 0..n }

\* The files the program finds when it starts.
ArtifactStates == {"ok", "missing", "corrupt"}
DataStates == {"ok", "missing", "unreadable", "no_label", "bad_columns"}
Environments ==
    { [model |-> m, scaler |-> s, data |-> d, rows |-> r] :
        m \in ArtifactStates, s \in ArtifactStates, d \in DataStates,
        r \in SeqsUpTo(RowCatalogue, MaxRows) }

\* ------------------------------------------------------------------ state
VARIABLES
    env,         \* the files on disk (never written by the program)
    pc,          \* where the program is
    sigint,      \* the operator's interrupt is pending
    exitStatus,  \* the process's exit status, NotExited while it runs
    model,       \* router.model
    scaler,      \* router.scaler
    X_stream,    \* the feature rows of the replay buffer
    y_stream,    \* the labels of the replay buffer
    loop,        \* the locals of simulation_loop's iteration: idx, flow_data, true_label
    frame,       \* the locals of process_traffic, each present once assigned
    out,         \* the lines printed for the flow in hand
    clock,       \* time.time(), in ticks
    drawn,       \* flows drawn so far
    emitted,     \* flow records completely printed so far
    slept,       \* inter-arrival sleeps finished so far
    ids          \* the flow identifiers handed out so far

vars == <<env, pc, sigint, exitStatus, model, scaler, X_stream, y_stream,
          loop, frame, out, clock, drawn, emitted, slept, ids>>

NotExited == -1              \* no exit status yet: the process runs
None == [x \in {} |-> 0]     \* a frame with no local assigned

StartupPcs == {"INIT", "LOADING"}
FlowPcs == {"transform", "score", "decide", "verify", "flags", "emit", "notice"}
RunningPcs == {"draw"} \cup FlowPcs \cup {"sleep"}
FinalPcs == {"STOPPED", "FATAL"}

\* The driver's state, as the specification names it.
State == IF pc \in RunningPcs THEN "RUNNING" ELSE pc

Init ==
    /\ env \in Environments
    /\ pc = "INIT"
    /\ sigint = FALSE
    /\ exitStatus = NotExited
    /\ model = "unloaded"
    /\ scaler = "unloaded"
    /\ X_stream = <<>>
    /\ y_stream = <<>>
    /\ loop = None
    /\ frame = None
    /\ out = <<>>
    /\ clock = 0
    /\ drawn = 0
    /\ emitted = 0
    /\ slept = 0
    /\ ids = <<>>

\* The process ends: its locals go with it, and what is left is what it
\* printed and its exit status.
Exit(final, status) ==
    /\ pc' = final
    /\ exitStatus' = status
    /\ loop' = None
    /\ frame' = None

\* ---------------------------------------------------------------- startup
\* RouterSystem.__init__, were the sys.exit(1) of line 32 left out: the error
\* is printed and construction goes on.
RouterSystem_init_noExit ==
    /\ pc = "INIT"
    /\ ~sigint
    /\ model' = IF env.model = "ok" THEN "loaded" ELSE "unloaded"
    /\ scaler' = IF env.model = "ok" /\ env.scaler = "ok" THEN "loaded" ELSE "unloaded"
    /\ IF env.model = "corrupt" \/ (env.model = "ok" /\ env.scaler = "corrupt")
       THEN Exit("FATAL", ExitFailure)
       ELSE pc' = "LOADING" /\ UNCHANGED <<exitStatus, loop, frame>>
    /\ UNCHANGED <<env, sigint, X_stream, y_stream, out, clock,
                   drawn, emitted, slept, ids>>

\* RouterSystem.__init__: joblib.load of the model, then of the scaler.  A
\* missing file is the FileNotFoundError that is caught and ends in
\* sys.exit(1); any other failure to load is not caught and ends the process
\* with the traceback's status.
RouterSystem_init ==
    /\ pc = "INIT"
    /\ ~sigint
    /\ IF env.model = "ok" /\ env.scaler = "ok"
       THEN /\ model' = "loaded"
            /\ scaler' = "loaded"
            /\ pc' = "LOADING"
            /\ UNCHANGED <<exitStatus, loop, frame>>
       ELSE /\ model' = IF env.model = "ok" THEN "loaded" ELSE "unloaded"
            /\ UNCHANGED scaler
            /\ Exit("FATAL", ExitFailure)
    /\ UNCHANGED <<env, sigint, X_stream, y_stream, out, clock,
                   drawn, emitted, slept, ids>>

\* simulation_loop, lines 102-130: the dataset is read twice.  A missing file
\* is reported and the function returns; so it does when the Label column is
\* missing, and when df[COLUMNS] raises because the feature columns are not
\* the 78 of COLUMNS (caught by "except Exception").  Returning ends the
\* script normally.  A file the first read cannot parse raises past the
\* "except FileNotFoundError" of line 108.
LoadDataset ==
    /\ pc = "LOADING"
    /\ ~sigint
    /\ IF env.data = "ok"
       THEN /\ X_stream' = env.rows
            /\ y_stream' = [i \in 1..Len(env.rows) |-> env.rows[i].label]
            /\ pc' = "draw"
            /\ UNCHANGED <<exitStatus, loop, frame>>
       ELSE /\ UNCHANGED <<X_stream, y_stream>>
            /\ IF env.data = "unreadable"
               THEN Exit("FATAL", ExitFailure)
               ELSE Exit("FATAL", ExitSuccess)
    /\ UNCHANGED <<env, sigint, model, scaler, out, clock,
                   drawn, emitted, slept, ids>>

\* ------------------------------------------------------------- the replay
\* f"FL-{int(time.time())}-{idx}"
FlowId(now, idx) == <<"FL", now \div TicksPerSecond, idx>>

\* Lines 135-145: np.random.randint(0, len(X_stream)) raises ValueError on an
\* empty buffer, and only KeyboardInterrupt is caught around the loop.
\* Otherwise the row and its label are read and process_traffic is called
\* with the flow identifier.  idx counts from 0 as in the program.
Draw ==
    /\ pc = "draw"
    /\ ~sigint
    /\ drawn < MaxFlows
    /\ IF Len(X_stream) = 0
       THEN /\ Exit("FATAL", ExitFailure)
            /\ UNCHANGED <<out, drawn, ids>>
       ELSE \E idx \in 0..(Len(X_stream) - 1) :
            /\ loop' = [idx |-> idx, flow_data |-> X_stream[idx + 1],
                        true_label |-> y_stream[idx + 1]]
            /\ frame' = [flow_features_raw |-> X_stream[idx + 1],
                         flow_id |-> FlowId(clock, idx),
                         true_label_str |-> y_stream[idx + 1]]
            /\ out' = <<>>
            /\ drawn' = drawn + 1
            /\ ids' = Append(ids, FlowId(clock, idx))
            /\ pc' = "transform"
            /\ UNCHANGED exitStatus
    /\ UNCHANGED <<env, sigint, model, scaler, X_stream, y_stream, clock,
                   emitted, slept>>

\* process_traffic, lines 59-64: the memory sample, then scaler.transform,
\* which raises on a row that is not all finite numbers; nothing in
\* process_traffic or around the loop catches it.
Transform ==
    /\ pc = "transform"
    /\ ~sigint
    /\ \E mem \in MemSamples :
         IF frame.flow_features_raw.finite
         THEN /\ frame' = frame @@ [mem_start |-> mem]
              /\ pc' = "score"
              /\ UNCHANGED <<exitStatus, loop>>
         ELSE Exit("FATAL", ExitFailure)
    /\ UNCHANGED <<env, sigint, model, scaler, X_stream, y_stream, out,
                   clock, drawn, emitted, slept, ids>>

\* Line 67: the classifier's probability of the malicious class.
Score ==
    /\ pc = "score"
    /\ ~sigint
    /\ \E p \in ProbValues : frame' = frame @@ [prob |-> p]
    /\ pc' = "decide"
    /\ UNCHANGED <<env, sigint, exitStatus, model, scaler, X_stream, y_stream,
                   loop, out, clock, drawn, emitted, slept, ids>>

\* Lines 68-69.
prediction_int(prob) == IF prob > Threshold THEN 1 ELSE 0
prediction(prob) == IF prob > Threshold THEN "MALICIOUS" ELSE "BENIGN"

\* router_demo.py, line 28.
inspect_packet(prob) == IF prob >= Threshold THEN "BLOCK" ELSE "ALLOW"

\* The action a verdict stands for: prediction_int = 1 is the flow whose
\* packets are dropped (lines 96-97).
Decision(pred) == IF pred = 1 THEN "BLOCK" ELSE "ALLOW"

\* Lines 68-71.
Decide ==
    /\ pc = "decide"
    /\ ~sigint
    /\ \E lat \in LatencySamples :
         frame' = frame @@ [prediction_int |-> prediction_int(frame.prob),
                            prediction |-> prediction(frame.prob),
                            latency_ms |-> lat]
    /\ pc' = "verify"
    /\ UNCHANGED <<env, sigint, exitStatus, model, scaler, X_stream, y_stream,
                   loop, out, clock, drawn, emitted, slept, ids>>

\* Lines 75-76, were the label compared without regard to case.
is_actually_malicious_caseless(true_label_str) ==
    true_label_str \notin {"BENIGN", "benign", "Benign"}

\* Lines 75-76.
is_actually_malicious(true_label_str) == true_label_str # BenignSentinel
actual_str(true_label_str) ==
    IF is_actually_malicious(true_label_str) THEN "MALICIOUS" ELSE "BENIGN"
\* Lines 79-80.
is_correct(pred, true_label_str) ==
    \/ pred = 1 /\ is_actually_malicious(true_label_str)
    \/ pred = 0 /\ ~is_actually_malicious(true_label_str)
\* Line 82.
status_icon(pred, true_label_str) ==
    IF is_correct(pred, true_label_str) THEN "CORRECT" ELSE "MISS"

\* Lines 75-82.
Verify ==
    /\ pc = "verify"
    /\ ~sigint
    /\ frame' = frame @@
         [is_actually_malicious |-> is_actually_malicious(frame.true_label_str),
          actual_str |-> actual_str(frame.true_label_str),
          is_correct |-> is_correct(frame.prediction_int, frame.true_label_str),
          status_icon |-> status_icon(frame.prediction_int, frame.true_label_str)]
    /\ pc' = "flags"
    /\ UNCHANGED <<env, sigint, exitStatus, model, scaler, X_stream, y_stream,
                   loop, out, clock, drawn, emitted, slept, ids>>

\* verify_packet_flags, lines 41-52: SYN, FIN, ACK, PSH in that order, each
\* when its count is above zero.
FlagIf(count, name) == IF count > 0 THEN <<name>> ELSE <<>>
\* verify_packet_flags, were the flags taken in the order of their columns in
\* COLUMNS (FIN, SYN, PSH, ACK).
verify_packet_flags_columnOrder(raw_features) ==
    [flags |-> FlagIf(raw_features.fin, "FIN") \o FlagIf(raw_features.syn, "SYN")
               \o FlagIf(raw_features.psh, "PSH") \o FlagIf(raw_features.ack, "ACK"),
     duration |-> raw_features.dur]

verify_packet_flags(raw_features) ==
    [flags |-> FlagIf(raw_features.syn, "SYN") \o FlagIf(raw_features.fin, "FIN")
               \o FlagIf(raw_features.ack, "ACK") \o FlagIf(raw_features.psh, "PSH"),
     duration |-> raw_features.dur]

\* Line 86.
Flags ==
    /\ pc = "flags"
    /\ ~sigint
    /\ LET r == verify_packet_flags(frame.flow_features_raw)
       IN frame' = frame @@ [active_flags |-> r.flags, duration |-> r.duration]
    /\ pc' = "emit"
    /\ UNCHANGED <<env, sigint, exitStatus, model, scaler, X_stream, y_stream,
                   loop, out, clock, drawn, emitted, slept, ids>>

\* The five lines printed under the rule of dashes, lines 89-94.
RecordLines(f) ==
    << [line |-> "RULE"],
       [line |-> "FLOW", flow_id |-> f.flow_id, duration |-> f.duration],
       [line |-> "FLAGS", active_flags |-> f.active_flags],
       [line |-> "VERDICT", prediction |-> f.prediction, prob |-> f.prob],
       [line |-> "LABEL", true_label_str |-> f.true_label_str,
        actual_str |-> f.actual_str],
       [line |-> "PERF", latency_ms |-> f.latency_ms, mem_start |-> f.mem_start] >>

\* Lines 89-94, were the record printed under the "if prediction_int == 1"
\* of line 96.
Emit_onlyBlocked ==
    /\ pc = "emit"
    /\ ~sigint
    /\ IF frame.prediction_int = 1
       THEN out' = out \o RecordLines(frame) /\ emitted' = emitted + 1
       ELSE UNCHANGED <<out, emitted>>
    /\ pc' = "notice"
    /\ UNCHANGED <<env, sigint, exitStatus, model, scaler, X_stream, y_stream,
                   loop, frame, clock, drawn, slept, ids>>

\* Lines 89-94.
Emit ==
    /\ pc = "emit"
    /\ ~sigint
    /\ out' = out \o RecordLines(frame)
    /\ emitted' = emitted + 1
    /\ pc' = "notice"
    /\ UNCHANGED <<env, sigint, exitStatus, model, scaler, X_stream, y_stream,
                   loop, frame, clock, drawn, slept, ids>>

\* Lines 96-97, were the notice printed without the test of line 96.
Notice_unconditional ==
    /\ pc = "notice"
    /\ ~sigint
    /\ out' = Append(out, [line |-> "ACTION"])
    /\ frame' = None
    /\ pc' = "sleep"
    /\ UNCHANGED <<env, sigint, exitStatus, model, scaler, X_stream, y_stream,
                   loop, clock, drawn, emitted, slept, ids>>

\* Lines 96-97, after which process_traffic returns and its locals are gone.
Notice ==
    /\ pc = "notice"
    /\ ~sigint
    /\ out' = IF frame.prediction_int = 1
              THEN Append(out, [line |-> "ACTION"])
              ELSE out
    /\ frame' = None
    /\ pc' = "sleep"
    /\ UNCHANGED <<env, sigint, exitStatus, model, scaler, X_stream, y_stream,
                   loop, clock, drawn, emitted, slept, ids>>

\* Line 147, were the sleep waited out whatever signal is pending.
Sleep_uncancellable ==
    /\ pc = "sleep"
    /\ clock <= MaxClock
    /\ \E d \in SleepLow..SleepHigh : clock' = clock + d
    /\ slept' = slept + 1
    /\ pc' = "draw"
    /\ UNCHANGED <<env, sigint, exitStatus, model, scaler, X_stream, y_stream,
                   loop, frame, out, drawn, emitted, ids>>

\* Line 147: time.sleep(np.random.uniform(0.5, 2.0)), then the loop's next
\* turn.  A pending interrupt ends the sleep instead (KeyboardInterrupt).
Sleep ==
    /\ pc = "sleep"
    /\ ~sigint
    /\ clock <= MaxClock
    /\ \E d \in SleepLow..SleepHigh : clock' = clock + d
    /\ slept' = slept + 1
    /\ pc' = "draw"
    /\ UNCHANGED <<env, sigint, exitStatus, model, scaler, X_stream, y_stream,
                   loop, frame, out, drawn, emitted, ids>>

\* --------------------------------------------------------- the interrupt
\* The operator presses Ctrl-C: the signal is noted and raised as
\* KeyboardInterrupt before the program's next step.  A signal that arrives
\* while a call is under way is this action taken right after that call's
\* step; one that arrives during time.sleep cuts the sleep short.
Sigint ==
    /\ pc \notin FinalPcs
    /\ ~sigint
    /\ sigint' = TRUE
    /\ UNCHANGED <<env, pc, exitStatus, model, scaler, X_stream, y_stream,
                   loop, frame, out, clock, drawn, emitted, slept, ids>>

\* What an uncaught KeyboardInterrupt leaves as the exit status.
UncaughtInterruptStatuses == {ExitFailure, 130}

\* Lines 132 and 149-150: inside the loop's try, KeyboardInterrupt is caught,
\* the shutdown line is printed and simulation_loop returns.  Before the try
\* (construction and loading) nothing catches it.
KeyboardInterrupt ==
    /\ sigint
    /\ pc \notin FinalPcs
    /\ IF pc \in RunningPcs
       THEN Exit("STOPPED", ExitSuccess)
       ELSE \E s \in UncaughtInterruptStatuses : Exit("FATAL", s)
    /\ UNCHANGED <<env, sigint, model, scaler, X_stream, y_stream,
                   out, clock, drawn, emitted, slept, ids>>

Next ==
    \/ RouterSystem_init
    \/ LoadDataset
    \/ Draw
    \/ Transform
    \/ Score
    \/ Decide
    \/ Verify
    \/ Flags
    \/ Emit
    \/ Notice
    \/ Sleep
    \/ Sigint
    \/ KeyboardInterrupt

Spec == Init /\ [][Next]_vars

\* The interpreter does not sit on a pending signal: KeyboardInterrupt is
\* raised as soon as it can be.
LiveSpec == Spec /\ WF_vars(KeyboardInterrupt)

\* ================================================================ claims
Decided == "prediction_int" \in DOMAIN frame
Verified == "status_icon" \in DOMAIN frame

\* C1: for every probability p the decision is BLOCK if and only if
\* p >= 0.5 (0.5 itself blocks), in process_traffic and in inspect_packet
\* alike, so the two agree on every p.
C1_BlockIffAtLeastHalf ==
    Decided =>
        /\ (Decision(frame.prediction_int) = "BLOCK") <=> (frame.prob >= 50)
        /\ (frame.prediction = "MALICIOUS") <=> (frame.prob >= 50)
        /\ (inspect_packet(frame.prob) = "BLOCK") <=> (frame.prob >= 50)
        /\ Decision(frame.prediction_int) = inspect_packet(frame.prob)

\* C2: with a label present, the outcome is CORRECT if and only if the
\* decision is BLOCK and the label is not exactly "BENIGN", or the decision
\* is ALLOW and the label is exactly "BENIGN"; otherwise it is MISS.  So
\* 0.61 on "BENIGN" is BLOCK/MISS, 0.73 on "DoS Hulk" is BLOCK/CORRECT, and
\* "benign" counts as malicious truth.
C2_VerificationOutcome ==
    (Verified /\ frame.true_label_str # NaN) =>
        LET decision == Decision(frame.prediction_int)
            label == frame.true_label_str
        IN /\ frame.status_icon \in {"CORRECT", "MISS"}
           /\ (frame.status_icon = "CORRECT") <=>
                  \/ decision = "BLOCK" /\ label # "BENIGN"
                  \/ decision = "ALLOW" /\ label = "BENIGN"
           /\ (frame.prob = 61 /\ label = "BENIGN") =>
                  decision = "BLOCK" /\ frame.status_icon = "MISS"
           /\ (frame.prob = 73 /\ label = "DoS Hulk") =>
                  decision = "BLOCK" /\ frame.status_icon = "CORRECT"
           /\ (label = "benign") =>
                  frame.is_actually_malicious /\ frame.actual_str = "MALICIOUS"

\* A flow labelled "benign" was allowed and its outcome computed.
C2_Witness ==
    /\ Verified
    /\ frame.true_label_str = "benign"
    /\ frame.prediction_int = 0
    /\ frame.status_icon = "MISS"

\* C3: a flow with no label is UNVERIFIED whatever the decision, never
\* CORRECT or MISS, and its absent label is mapped to neither truth.
C3_AbsentLabelUnverified ==
    (Verified /\ frame.true_label_str = NaN) =>
        /\ frame.status_icon = "UNVERIFIED"
        /\ frame.actual_str \notin {"MALICIOUS", "BENIGN"}

\* C4: every startup failure (an artifact missing or unloadable, the
\* dataset file missing, its Label column missing, its feature columns not
\* those of the schema) ends the process with a non-zero status, and status
\* 0 is that of an operator-requested stop only.
StartupFailure ==
    env.model # "ok" \/ env.scaler # "ok" \/ env.data # "ok"
C4_StartupFailureExitsNonZero ==
    /\ (pc \in FinalPcs /\ StartupFailure) => exitStatus # 0
    /\ (pc \in FinalPcs /\ exitStatus = 0) => pc = "STOPPED"

\* C5: the driver's states follow INIT -> LOADING -> RUNNING ->
\* (STOPPED | FATAL); no flow is drawn, scored or logged unless both
\* artifacts were loaded and the replay buffer was loaded from a dataset
\* that has its Label column; after a fatal startup condition no flow is
\* ever processed.
StateOrder ==
    { <<"INIT", "LOADING">>, <<"INIT", "FATAL">>,
      <<"LOADING", "RUNNING">>, <<"LOADING", "FATAL">>,
      <<"RUNNING", "STOPPED">>, <<"RUNNING", "FATAL">> }
FlowInHand == pc \in RunningPcs \/ drawn > 0 \/ emitted > 0 \/ out # <<>>
C5_StateOrder ==
    /\ [](FlowInHand =>
            /\ model = "loaded" /\ env.model = "ok"
            /\ scaler = "loaded" /\ env.scaler = "ok"
            /\ env.data = "ok"
            /\ X_stream = env.rows
            /\ Len(y_stream) = Len(X_stream))
    /\ [][State' # State => <<State, State'>> \in StateOrder]_vars
    /\ [][pc = "FATAL" =>
            pc' = "FATAL" /\ UNCHANGED <<drawn, emitted, out>>]_vars

\* Two flows were drawn and the first one's record was printed.
C5_Witness == State = "RUNNING" /\ drawn = 2 /\ emitted >= 1

\* C6: an interrupt delivered while the driver is RUNNING, during the
\* scoring or logging of a flow or during the sleep, takes the driver to
\* STOPPED with status 0 and no further flow is drawn; the sleep is cut
\* short, not waited out and followed by another iteration.
C6_InterruptStops ==
    /\ [][(sigint /\ pc \in RunningPcs) =>
            /\ pc' = "STOPPED"
            /\ exitStatus' = 0
            /\ UNCHANGED <<drawn, slept, clock, out>>]_vars
    /\ [][pc = "STOPPED" => pc' = "STOPPED" /\ UNCHANGED <<drawn, exitStatus>>]_vars
    /\ [](pc = "STOPPED" => exitStatus = 0)
    /\ (sigint /\ pc \in RunningPcs) ~> (pc = "STOPPED")

\* The driver stopped on an interrupt that came during a sleep: the flow's
\* last line, the mitigation notice, was out and the sleep never finished.
C6_Witness ==
    /\ pc = "STOPPED"
    /\ exitStatus = 0
    /\ slept < emitted
    /\ Len(out) > 0
    /\ out[Len(out)].line = "ACTION"

\* C7: once RUNNING, the driver leaves RUNNING only on an operator
\* interrupt, for every loaded replay buffer, one with zero rows included.
C7_LeavesRunningOnlyOnInterrupt ==
    [][(pc \in RunningPcs /\ pc' \notin RunningPcs) =>
          (sigint /\ pc' = "STOPPED")]_vars

\* C8: when the processing of one flow fails, the loop does not crash: it
\* goes on with the next draw and no record is printed for that flow.
C8_FlowFailureDoesNotCrash ==
    [][(pc = "transform" /\ ~sigint /\ ~frame.flow_features_raw.finite) =>
          (pc' \in RunningPcs /\ emitted' = emitted)]_vars

\* C9: flows never overlap.  The steps of a flow come in the order draw,
\* transform and score, decide, verify, emit, sleep; a record is printed
\* once per flow; and a flow is drawn only when the record of the one
\* before it is complete and its sleep is over.
StepOrder ==
    { <<"LOADING", "draw">>, <<"draw", "transform">>, <<"transform", "score">>,
      <<"score", "decide">>, <<"decide", "verify">>, <<"verify", "flags">>,
      <<"flags", "emit">>, <<"emit", "notice">>, <<"notice", "sleep">>,
      <<"sleep", "draw">> }
LinesOf(kind) == { i \in 1..Len(out) : out[i].line = kind }
C9_NoOverlap ==
    /\ [](/\ emitted <= drawn /\ drawn <= emitted + 1
          /\ slept <= emitted /\ emitted <= slept + 1)
    /\ [](pc = "draw" => emitted = drawn /\ slept = drawn)
    /\ [](pc \in {"notice", "sleep"} =>
            /\ emitted = drawn
            /\ Cardinality(LinesOf("FLOW")) = 1
            /\ out[2].flow_id = ids[drawn])
    /\ [][(pc' # pc /\ pc' \in RunningPcs) => <<pc, pc'>> \in StepOrder]_vars
    /\ [][drawn' # drawn =>
            /\ drawn' = drawn + 1
            /\ pc = "draw" /\ emitted = drawn /\ slept = drawn]_vars
    /\ [][emitted' # emitted => emitted' = emitted + 1 /\ pc = "emit"]_vars

\* A second flow is in hand after the first was printed and slept on.
C9_Witness == drawn = 2 /\ emitted = 1 /\ slept = 1 /\ pc = "verify"

\* C10: every record printed for a flow holds the flow identifier, the
\* duration, the active flags, the probability, the decision, the label,
\* the correctness outcome computed for the flow, the latency and the
\* memory sample.
RequiredFields ==
    { "flow_id", "duration", "active_flags", "prob", "prediction",
      "true_label_str", "status_icon", "latency_ms", "mem_start" }
PrintedFields == UNION { DOMAIN out[i] : i \in 1..Len(out) }
C10_RecordComplete ==
    (pc \in {"notice", "sleep"}) => RequiredFields \subseteq PrintedFields

\* The count field of COLUMNS that carries a flag.
FlagCount(v, name) ==
    CASE name = "SYN" -> v.syn
      [] name = "FIN" -> v.fin
      [] name = "ACK" -> v.ack
      [] name = "PSH" -> v.psh
      [] name = "RST" -> v.rst
      [] name = "URG" -> v.urg
      [] name = "CWE" -> v.cwe
      [] name = "ECE" -> v.ece
ReadFlags == <<"SYN", "FIN", "ACK", "PSH">>
AllFlags == {"FIN", "SYN", "RST", "PSH", "ACK", "URG", "CWE", "ECE"}
Elems(seq) == { seq[i] : i \in 1..Len(seq) }
PlaceIn(seq, x) == CHOOSE i \in 1..Len(seq) : seq[i] = x
\* seq lists some of order's elements, each once, in order's order.
InOrderOf(seq, order) ==
    /\ Elems(seq) \subseteq Elems(order)
    /\ \A i, j \in 1..Len(seq) :
          i < j => PlaceIn(order, seq[i]) < PlaceIn(order, seq[j])
Flagged == "active_flags" \in DOMAIN frame

\* C11 as stated: the active-flags list holds a flag exactly when that
\* flag's count field of the vector is nonzero, for each flag-count field of
\* the vector, in one fixed order; the duration is the 'Flow Duration' field.
C11_EveryFlagCountField ==
    Flagged =>
        LET v == frame.flow_features_raw
        IN /\ \A name \in AllFlags :
                 (name \in Elems(frame.active_flags)) <=> (FlagCount(v, name) # 0)
           /\ frame.duration = v.dur

\* C11 as amended: for each of SYN, FIN, ACK and PSH the list holds the flag
\* exactly when its count is above zero, in the fixed order SYN, FIN, ACK,
\* PSH (SYN=1, FIN=0, ACK=1, PSH=0 gives <<SYN, ACK>>); RST, URG, CWE and ECE
\* are never listed; the duration is the 'Flow Duration' field; and the
\* record prints that list and that duration.
C11_FourFlagsInOrder ==
    /\ Flagged =>
        LET v == frame.flow_features_raw
            fl == frame.active_flags
        IN /\ \A i \in 1..Len(ReadFlags) :
                 (ReadFlags[i] \in Elems(fl)) <=> (FlagCount(v, ReadFlags[i]) > 0)
           /\ InOrderOf(fl, ReadFlags)
           /\ (v.syn = 1 /\ v.fin = 0 /\ v.ack = 1 /\ v.psh = 0) =>
                 fl = <<"SYN", "ACK">>
           /\ frame.duration = v.dur
    /\ pc = "notice" =>
        /\ out[3].active_flags = frame.active_flags
        /\ out[2].duration = frame.duration

\* The flow with SYN=1, FIN=0, ACK=1, PSH=0 and duration 120 was inspected
\* and its record printed.
C11_Witness ==
    /\ pc = "notice"
    /\ frame.flow_features_raw.syn = 1 /\ frame.flow_features_raw.fin = 0
    /\ frame.flow_features_raw.ack = 1 /\ frame.flow_features_raw.psh = 0
    /\ out[3].active_flags = <<"SYN", "ACK">>
    /\ out[2].duration = 120

\* C12: a mitigation notice is printed for a flow if and only if the flow's
\* decision is BLOCK; it is part of that flow's output, after the record's
\* lines and before the next flow is drawn; an ALLOW never has one.
Noticed == LinesOf("ACTION") # {}
C12_NoticeIffBlock ==
    /\ [][(pc = "notice" /\ pc' = "sleep") =>
            /\ Noticed' <=> (Decision(frame.prediction_int) = "BLOCK")
            /\ Noticed' <=> (frame.prediction = "MALICIOUS")
            /\ drawn' = drawn]_vars
    /\ [](pc = "sleep" => (Noticed <=> out[4].prediction = "MALICIOUS"))
    /\ [](Noticed =>
            /\ LinesOf("ACTION") = {Len(out)}
            /\ Len(out) = 7
            /\ [i \in 1..6 |-> out[i].line] =
                  <<"RULE", "FLOW", "FLAGS", "VERDICT", "LABEL", "PERF">>
            /\ out[2].flow_id = ids[drawn]
            /\ pc \notin FlowPcs)
    /\ [][(~Noticed /\ Noticed') => (pc = "notice" /\ emitted = drawn)]_vars

\* A flow scored 0.73 was blocked and its notice printed after its record.
C12_Witness ==
    /\ pc = "sleep"
    /\ Len(out) = 7
    /\ out[4].prob = 73
    /\ out[4].prediction = "MALICIOUS"
    /\ out[7].line = "ACTION"

\* C13: no two processed flows of a run have the same flow identifier, also
\* when the same buffer index is drawn again and when two iterations start
\* within the same second.
C13_FlowIdsUnique ==
    \A i, j \in 1..Len(ids) : i # j => ids[i] # ids[j]

====
